---- MODULE Spec2Model ----
(***************************************************************************)
(* The upload queue of the FileUpload dialog (src/unnamed/part_000) and    *)
(* the ingestion call uploadDocumentToN8n (src/src/lib/n8n.ts).            *)
(*                                                                         *)
(* State: the React state uploadFiles (an ordered list of UploadFile       *)
(* records), the upload attempts started so far (one closure of uploadFile *)
(* each: its snapshot of the entry, its interval timer, its pending or     *)
(* settled ingestion call) and the source of fresh entry ids.              *)
(*                                                                         *)
(* Every state change of the component is a functional update              *)
(* setUploadFiles(prev => ...), applied in the order it was queued, so an  *)
(* event handler or a continuation is one atomic step on uploadFiles.      *)
(* Message texts are rendered in ASCII; the comment beside each gives the  *)
(* source line of the literal.                                             *)
(***************************************************************************)
EXTENDS Integers, Sequences, FiniteSets, TLC

VARIABLES uploadFiles, attempts, nextId, picked, exchange, returned,
          session, stored, invoked, sent

clientVars == <<session, stored, invoked, sent>>

vars == <<uploadFiles, attempts, nextId, picked, exchange, returned,
          session, stored, invoked, sent>>

----------------------------------------------------------------------------
(* Bounds of the model *)

\* files enqueued over the lifetime of the dialog (ids handed out)
MaxFiles == 2
\* files in one selection / drop in the queue specification
MaxBatch == 2
\* files in one selection / drop in the validation specification
MaxPick == 2

----------------------------------------------------------------------------
(* Values *)

\* JavaScript null / undefined (validateFile's "no error", an absent field)
Null == "<null>"

\* a string is falsy exactly when it is empty; null and undefined are falsy
Truthy(v) == v # Null /\ v # ""

\* a || b
OrElse(a, b) == IF Truthy(a) THEN a ELSE b

acceptedTypes ==
    { "application/pdf", "image/jpeg", "image/png", "image/gif",
      "application/msword",
      "application/vnd.openxmlformats-officedocument.wordprocessingml.document",
      "text/plain" }

KiB == 1024
MaxBytes == 50 * KiB * KiB

\* part_000:45
MsgType == "unsupported file type"
\* part_000:48
MsgSize == "file size must not exceed 50MB"
\* part_000:105, part_000:115
MsgUploadFailed == "upload failed"
\* n8n.ts:265, n8n.ts:272
MsgN8nUploadFailed == "file upload failed"

\* n8n.ts:265: `${prefix}: ${response.status} ${response.statusText}`
HttpFailureMessage(status, statusText) ==
    MsgN8nUploadFailed \o ": " \o ToString(status) \o " " \o statusText

----------------------------------------------------------------------------
(* validateFile and handleFiles *)

\* a size check that turns away a file of exactly the limit
validateFile_rejectsLimit(file) ==
    IF file.type \notin acceptedTypes THEN MsgType
    ELSE IF file.size >= MaxBytes THEN MsgSize
    ELSE Null

validateFile(file) ==
    IF file.type \notin acceptedTypes THEN MsgType
    ELSE IF file.size > MaxBytes THEN MsgSize
    ELSE Null

\* an entry whose status ignores the validation result
NewEntry_alwaysPending(file, id) ==
    [ file     |-> file,
      id       |-> id,
      status   |-> "pending",
      progress |-> 0,
      error    |-> validateFile(file),
      title    |-> file.name ]

\* the entry handleFiles pushes for one file
NewEntry(file, id) ==
    LET error == validateFile(file) IN
    [ file     |-> file,
      id       |-> id,
      status   |-> IF Truthy(error) THEN "error" ELSE "pending",
      progress |-> 0,
      error    |-> error,
      title    |-> file.name ]

\* an update that puts the new entries in front: [...newFiles, ...prev]
handleFiles_prepends(prev, files, firstId) ==
    [i \in 1..Len(files) |-> NewEntry(files[i], firstId + i - 1)] \o prev

\* setUploadFiles(prev => [...prev, ...newFiles]).  An id is the clock
\* reading joined to a 52-bit random fraction; ids are taken to be distinct,
\* here by numbering the files in the order they are enqueued.
handleFiles(prev, files, firstId) ==
    prev \o [i \in 1..Len(files) |-> NewEntry(files[i], firstId + i - 1)]

----------------------------------------------------------------------------
(* The functional updates of uploadFiles *)

\* an update that forgets to compare the id
markUploading_everyEntry(prev, id) ==
    [i \in DOMAIN prev |->
        [prev[i] EXCEPT !.status = "uploading", !.progress = 0]]

\* prev.map(f => f.id === id ? {...f, status: 'uploading', progress: 0} : f)
markUploading(prev, id) ==
    [i \in DOMAIN prev |->
        IF prev[i].id = id
        THEN [prev[i] EXCEPT !.status = "uploading", !.progress = 0]
        ELSE prev[i]]

ProgressStep == 10
ProgressCeiling == 90
ProgressDone == 100

\* an interval callback that stops only at the full bar
tickProgress_noCeiling(prev, id) ==
    [i \in DOMAIN prev |->
        IF prev[i].id = id /\ prev[i].progress < ProgressDone
        THEN [prev[i] EXCEPT !.progress = @ + ProgressStep]
        ELSE prev[i]]

\* an interval callback that declares the upload done when the bar is full
tickProgress_finishes(prev, id) ==
    [i \in DOMAIN prev |->
        IF prev[i].id = id /\ prev[i].progress < ProgressCeiling
        THEN [prev[i] EXCEPT !.progress = @ + ProgressStep,
                             !.status = IF prev[i].progress + ProgressStep
                                            = ProgressCeiling
                                        THEN "success" ELSE @]
        ELSE prev[i]]

\* the interval callback
tickProgress(prev, id) ==
    [i \in DOMAIN prev |->
        IF prev[i].id = id /\ prev[i].progress < ProgressCeiling
        THEN [prev[i] EXCEPT !.progress = @ + ProgressStep]
        ELSE prev[i]]

\* a success update that leaves the simulated progress where it was
markSuccess_keepsProgress(prev, id) ==
    [i \in DOMAIN prev |->
        IF prev[i].id = id THEN [prev[i] EXCEPT !.status = "success"]
        ELSE prev[i]]

\* a success update that puts the entry back when it is no longer there
markSuccess_upsert(prev, id) ==
    IF \E i \in DOMAIN prev : prev[i].id = id
    THEN [i \in DOMAIN prev |->
            IF prev[i].id = id
            THEN [prev[i] EXCEPT !.status = "success",
                                 !.progress = ProgressDone]
            ELSE prev[i]]
    ELSE Append(prev, [ file |-> [name |-> "", type |-> "", size |-> 0],
                        id |-> id, status |-> "success",
                        progress |-> ProgressDone, error |-> Null,
                        title |-> "" ])

markSuccess(prev, id) ==
    [i \in DOMAIN prev |->
        IF prev[i].id = id
        THEN [prev[i] EXCEPT !.status = "success", !.progress = ProgressDone]
        ELSE prev[i]]

\* an error update that writes the whole collection, not the one entry
markError_everyEntry(prev, id, message) ==
    [i \in DOMAIN prev |->
        [prev[i] EXCEPT !.status = "error", !.progress = 0,
                        !.error = message]]

markError(prev, id, message) ==
    [i \in DOMAIN prev |->
        IF prev[i].id = id
        THEN [prev[i] EXCEPT !.status = "error", !.progress = 0,
                             !.error = message]
        ELSE prev[i]]

\* a removal that cuts the list at the entry instead of filtering it out
removeFile_dropsTail(prev, id) ==
    IF \E i \in DOMAIN prev : prev[i].id = id
    THEN SubSeq(prev, 1, (CHOOSE i \in DOMAIN prev : prev[i].id = id) - 1)
    ELSE prev

removeFile(prev, id) == SelectSeq(prev, LAMBDA f : f.id # id)

updateFileTitle(prev, id, newTitle) ==
    [i \in DOMAIN prev |->
        IF prev[i].id = id THEN [prev[i] EXCEPT !.title = newTitle]
        ELSE prev[i]]

----------------------------------------------------------------------------
(* Derived queries of the render *)

\* the query without its length test
allCompleted_everyOnly ==
    \A i \in DOMAIN uploadFiles :
        uploadFiles[i].status = "success" \/ uploadFiles[i].status = "error"

allCompleted ==
    /\ Len(uploadFiles) > 0
    /\ \A i \in DOMAIN uploadFiles :
          uploadFiles[i].status = "success" \/ uploadFiles[i].status = "error"

hasSuccess == \E i \in DOMAIN uploadFiles : uploadFiles[i].status = "success"

\* a selection that also retries the entries in error
pendingFiles_withErrors(files) ==
    SelectSeq(files, LAMBDA f : f.status = "pending" \/ f.status = "error")

\* a selection that takes the entries already uploading as well
pendingFiles_withUploading(files) ==
    SelectSeq(files, LAMBDA f : f.status = "pending" \/ f.status = "uploading")

pendingFiles(files) == SelectSeq(files, LAMBDA f : f.status = "pending")

pendingCount == Len(pendingFiles(uploadFiles))

----------------------------------------------------------------------------
(* uploadDocumentToN8n *)

\* What the network does with one request: fetch rejects with a thrown
\* value, or resolves with a response whose text() resolves with the body or
\* rejects with a thrown value.  A thrown value is an Error with a message,
\* or something that is not an Error.
Thrown(isError, message) == [isError |-> isError, message |-> message]

NoThrow == Thrown(FALSE, Null)

Response(status, statusText, body) ==
    [ fetch |-> "resolve", status |-> status, statusText |-> statusText,
      text |-> "resolve", body |-> body, thrown |-> NoThrow ]

FetchRejects(thrown) ==
    [ fetch |-> "reject", status |-> 0, statusText |-> "",
      text |-> "none", body |-> "", thrown |-> thrown ]

TextRejects(status, statusText, thrown) ==
    [ fetch |-> "resolve", status |-> status, statusText |-> statusText,
      text |-> "reject", body |-> "", thrown |-> thrown ]

\* Response.ok of the Fetch API
ResponseOk(status) == status >= 200 /\ status <= 299

\* the catch block: n8n.ts:268-274
n8nFailure(thrown) ==
    [ success  |-> FALSE,
      response |-> Null,
      error    |-> IF thrown.isError THEN thrown.message
                   ELSE MsgN8nUploadFailed ]

\* the leniency extended to every failure status that comes with a body
uploadDocumentToN8n_anyStatusWithBody(h) ==
    IF h.fetch = "reject" THEN n8nFailure(h.thrown)
    ELSE IF h.text = "reject" THEN n8nFailure(h.thrown)
    ELSE IF ResponseOk(h.status) \/ Truthy(h.body)
         THEN [ success |-> TRUE, response |-> h.body, error |-> Null ]
         ELSE n8nFailure(Thrown(TRUE,
                  HttpFailureMessage(h.status, h.statusText)))

\* n8n.ts:248-274, from the fetch on
uploadDocumentToN8n(h) ==
    IF h.fetch = "reject" THEN n8nFailure(h.thrown)
    ELSE IF h.text = "reject" THEN n8nFailure(h.thrown)
    ELSE LET text == h.body IN
         IF ResponseOk(h.status) \/ (h.status = 500 /\ Truthy(text))
         THEN [ success |-> TRUE, response |-> text, error |-> Null ]
         ELSE n8nFailure(Thrown(TRUE,
                  HttpFailureMessage(h.status, h.statusText)))

----------------------------------------------------------------------------
(* Inputs *)

MiB == KiB * KiB

PngFile == [name |-> "photo.png", type |-> "image/png", size |-> 2 * MiB]
BigPdf == [name |-> "big.pdf", type |-> "application/pdf", size |-> 60 * MiB]
VideoFile == [name |-> "clip.mp4", type |-> "video/mp4", size |-> MiB]

\* the files the user selects in the queue specification
QueueFiles == {PngFile, BigPdf, VideoFile}

\* the files of the validation specification
PickTypes == {"application/pdf", "image/png", "text/plain", "video/mp4", ""}
PickSizes == {0, MiB, MaxBytes - 1, MaxBytes, MaxBytes + 1, 60 * MiB}
PickFiles == [name : {"doc"}, type : PickTypes, size : PickSizes]

\* all sequences over S of length 1..n
SeqsUpTo(S, n) == UNION {[1..k -> S] : k \in 1..n}

\* what the user types into a title input
Titles == {"Report"}

NetworkError == Thrown(TRUE, "Failed to fetch")
NotAnError == Thrown(FALSE, Null)

\* the outcomes of a request in the queue specification
QueueOutcomes ==
    { Response(200, "OK", "stored"),
      Response(500, "Internal Server Error", "Error in workflow"),
      Response(404, "Not Found", "Error in workflow"),
      FetchRejects(NetworkError),
      FetchRejects(NotAnError) }

\* the outcomes of a request in the specification of the ingestion call
Statuses == {200, 201, 204, 400, 401, 403, 404, 429, 500, 502, 503}

StatusText(status) ==
    CASE status = 200 -> "OK"
      [] status = 201 -> "Created"
      [] status = 204 -> "No Content"
      [] status = 400 -> "Bad Request"
      [] status = 401 -> "Unauthorized"
      [] status = 403 -> "Forbidden"
      [] status = 404 -> "Not Found"
      [] status = 429 -> "Too Many Requests"
      [] status = 500 -> "Internal Server Error"
      [] status = 502 -> "Bad Gateway"
      [] status = 503 -> "Service Unavailable"

Bodies == {"", "stored", "Error in workflow"}

Throwables == {NetworkError, NotAnError, Thrown(TRUE, "The operation was aborted.")}

Outcomes ==
    {Response(st, StatusText(st), b) : st \in Statuses, b \in Bodies}
    \cup {TextRejects(st, StatusText(st), t) : st \in Statuses, t \in Throwables}
    \cup {FetchRejects(t) : t \in Throwables}

----------------------------------------------------------------------------
(* Upload attempts: one per call of uploadFile *)

\* the ingestion call has not returned
NoResult == [success |-> FALSE, response |-> Null, error |-> Null]

\* the closure of one uploadFile call after its synchronous part: the entry
\* it was called with, its interval timer, its ingestion call and what the
\* call returned
NewAttempt(entry) ==
    [ id     |-> entry.id,
      file   |-> entry.file,
      title  |-> entry.title,
      timer  |-> TRUE,
      call   |-> "pending",
      result |-> NoResult,
      raised |-> NoThrow ]

\* pendingFiles.forEach(uploadFile): the synchronous part of each call, in
\* order: queue the 'uploading' update, set the interval, issue the request
RECURSIVE startEach(_, _, _)
startEach(prev, atts, pend) ==
    IF pend = <<>> THEN <<prev, atts>>
    ELSE startEach(markUploading(prev, Head(pend).id),
                   Append(atts, NewAttempt(Head(pend))),
                   Tail(pend))

\* a continuation that reports every failure with the fixed text
finishUpload_fixedMessage(prev, id, result) ==
    IF result.success
    THEN markSuccess(prev, id)
    ELSE markError(prev, id, MsgUploadFailed)

\* a catch block that records nothing: the entry of a failed call is left
\* as it was
finishUpload_dropsFailure(prev, id, result) ==
    IF result.success THEN markSuccess(prev, id) ELSE prev

\* the continuation of uploadFile after the await: part_000:98-119
finishUpload(prev, id, result) ==
    IF result.success
    THEN markSuccess(prev, id)
    ELSE LET thrown == Thrown(TRUE, OrElse(result.error, MsgUploadFailed))
         IN  markError(prev, id,
                       IF thrown.isError THEN thrown.message
                       ELSE MsgUploadFailed)

\* the value thrown inside the try block after the await: part_000:98-106
thrownInTry(result) ==
    IF result.success THEN NoThrow
    ELSE Thrown(TRUE, OrElse(result.error, MsgUploadFailed))

\* catch (error) { ... } of part_000:108 takes every thrown value
caughtByUploadFile(thrown) == TRUE

\* an uploadFile whose catch block throws the error on
escapesUploadFile_rethrows(result) == thrownInTry(result)

\* the value that leaves uploadFile as a rejection of its promise: the whole
\* body is inside try, and the catch block only queues a state update
escapesUploadFile(result) ==
    LET thrown == thrownInTry(result) IN
    IF caughtByUploadFile(thrown) THEN NoThrow ELSE thrown

\* a continuation that leaves the interval running
settled_keepsTimer(att, res) ==
    [att EXCEPT !.call = "done", !.title = Null,
                !.result = res, !.raised = escapesUploadFile(res)]

\* clearInterval(progressInterval), and the call is over: what stays of the
\* attempt is the record of the request issued, of what it returned and of
\* what uploadFile raised
settled(att, res) ==
    [att EXCEPT !.timer = FALSE, !.call = "done", !.title = Null,
                !.result = res, !.raised = escapesUploadFile(res)]

----------------------------------------------------------------------------
(* The client functions of n8n.ts that need the acting user *)

\* n8n.ts:52, n8n.ts:195
MsgNotLoggedIn == "user not logged in"
\* n8n.ts:105
MsgUnknownError == "unknown error"

\* n8n.ts:74: `${prefix}: ${response.status} ${response.statusText}`
AgentFailureMessage(status, statusText) ==
    "n8n call failed: " \o ToString(status) \o " " \o statusText

\* JavaScript values that are not all strings: what JSON.parse gives and what
\* the client functions resolve to
JUndefined == [type |-> "undefined"]
JNull == [type |-> "null"]
JString(s) == [type |-> "string", text |-> s]
JNumber(n) == [type |-> "number", number |-> n]
JArray(items) == [type |-> "array", items |-> items]
Member(key, value) == [key |-> key, value |-> value]
JObject(members) == [type |-> "object", members |-> members]

\* truthiness of a JavaScript value
JTruthy(v) ==
    CASE v.type = "undefined" -> FALSE
      [] v.type = "null"      -> FALSE
      [] v.type = "string"    -> v.text # ""
      [] v.type = "number"    -> v.number # 0
      [] OTHER                -> TRUE

\* v[key] of a value that is neither null nor undefined: the member of an
\* object (the last one of that key), undefined for anything else
GetMember(v, key) ==
    IF v.type = "object" /\ \E i \in DOMAIN v.members : v.members[i].key = key
    THEN LET last == CHOOSE i \in DOMAIN v.members :
                        /\ v.members[i].key = key
                        /\ \A j \in DOMAIN v.members :
                              v.members[j].key = key => j <= i
         IN  v.members[last].value
    ELSE JUndefined

Quote(s) == "\"" \o s \o "\""

RECURSIVE Join(_)
Join(texts) ==
    IF texts = <<>> THEN ""
    ELSE IF Len(texts) = 1 THEN texts[1]
    ELSE texts[1] \o "," \o Join(Tail(texts))

\* the JSON text of a value
RECURSIVE JsonText(_)
JsonText(v) ==
    CASE v.type = "null"   -> "null"
      [] v.type = "string" -> Quote(v.text)
      [] v.type = "number" -> ToString(v.number)
      [] v.type = "array"  ->
            "[" \o Join([i \in DOMAIN v.items |-> JsonText(v.items[i])]) \o "]"
      [] v.type = "object" ->
            "{" \o Join([i \in DOMAIN v.members |->
                           Quote(v.members[i].key) \o ":"
                               \o JsonText(v.members[i].value)]) \o "}"

\* the values whose JSON texts the model's agent may send
JsonScalars ==
    { JNull, JString("answer"), JString(""), JNumber(0), JNumber(42) }

JsonValues ==
    JsonScalars
    \cup { JArray(<<>>), JArray(<<JString("answer")>>), JObject(<<>>) }
    \cup { JObject(<<Member(k, v)>>) :
              k \in {"ai_content", "output"}, v \in JsonScalars }
    \cup { JObject(<<Member("output", JString("other")),
                     Member("ai_content", JString("answer"))>>),
           JObject(<<Member("ai_content", JObject(<<>>))>>) }

\* JSON.parse(text): the value of which text is the JSON text, or a
\* SyntaxError
JsonParse(text) ==
    IF \E v \in JsonValues : JsonText(v) = text
    THEN [ok |-> TRUE, value |-> CHOOSE v \in JsonValues : JsonText(v) = text]
    ELSE [ok |-> FALSE, value |-> JUndefined]

\* the response text taken as the entire payload unless the payload decodes
\* to a structure that has the response field
cleanResponse_asStated(result) ==
    LET parsed == JsonParse(result) IN
    IF ~parsed.ok THEN JString(result)
    ELSE IF parsed.value.type = "null" THEN JString(result)
    ELSE IF GetMember(parsed.value, "ai_content") # JUndefined
         THEN GetMember(parsed.value, "ai_content")
         ELSE JString(result)

\* n8n.ts:82-94.  Reading a property of null throws a TypeError, which the
\* catch at n8n.ts:91 takes like the SyntaxError of JSON.parse.
cleanResponse(result) ==
    LET parsed == JsonParse(result) IN
    IF ~parsed.ok THEN JString(result)
    ELSE LET jsonResponse == parsed.value IN
         IF jsonResponse.type = "null" THEN JString(result)
         ELSE IF JTruthy(GetMember(jsonResponse, "ai_content"))
              THEN GetMember(jsonResponse, "ai_content")
         ELSE IF jsonResponse.type = "string" THEN jsonResponse
         ELSE JString(result)

\* what supabase.auth.getUser() resolves to: data.user, null when nobody
\* is signed in
SignedIn(id) == [user |-> id]
SignedOut == [user |-> Null]

\* what the persistence backend answers to a query: { data, error }
DbReply(hasData, rows, error) ==
    [hasData |-> hasData, rows |-> rows, error |-> error]

\* string | string[]
OneProject(id) == [isArray |-> FALSE, ids |-> <<id>>]
ManyProjects(ids) == [isArray |-> TRUE, ids |-> ids]

\* the requests a client function issues
GetUserRequest == [to |-> "identity", op |-> "getUser"]

\* n8n.ts:61-71
AgentRequest(chatInput, projectId, userId) ==
    [ to |-> "agent", op |-> "POST",
      chatInput |-> chatInput, project_id |-> projectId, user_id |-> userId ]

\* n8n.ts:198-202
ProjectsQuery(userId) ==
    [ to |-> "db", op |-> "select", table |-> "projects",
      columns |-> "id, name", filter |-> <<<<"creator_id", userId>>>>,
      newestFirst |-> TRUE, limit |-> 0 ]

\* n8n.ts:296-306
ChatInsert(userMessage, aiResponse, projectId, userId) ==
    [ to |-> "db", op |-> "insert", table |-> "chat_history",
      content |-> userMessage, ai_content |-> aiResponse, role |-> "user",
      agent_type |-> "project_agent",
      project_id |-> IF projectId.ids = <<>> THEN Null
                     ELSE projectId.ids[1],
      user_id |-> userId,
      project_ids |-> projectId.ids ]

\* n8n.ts:337-343
ChatQuery(userId, limit) ==
    [ to |-> "db", op |-> "select", table |-> "chat_history",
      columns |-> "*",
      filter |-> << <<"user_id", userId>>, <<"agent_type", "project_agent">> >>,
      newestFirst |-> TRUE, limit |-> limit ]

\* a client function's run: the requests it issued, in order, and the value
\* its promise resolves to (none of them rejects: each body is one try
\* whose catch returns)
Ran(issued, value) == [issued |-> issued, value |-> value]

ChatSuccess(response) ==
    [success |-> TRUE, response |-> response, error |-> Null]

\* the catch block: n8n.ts:101-107
ChatFailure(thrown) ==
    [ success  |-> FALSE,
      response |-> JUndefined,
      error    |-> IF thrown.isError THEN thrown.message
                   ELSE MsgUnknownError ]

Rows(rows) == [type |-> "rows", rows |-> rows]

\* n8n.ts:38-108
callN8nRAGAgent(s, chatInput, projectId, h) ==
    IF ~Truthy(s.user)
    THEN Ran(<<GetUserRequest>>, ChatFailure(Thrown(TRUE, MsgNotLoggedIn)))
    ELSE LET issued == <<GetUserRequest,
                         AgentRequest(chatInput, projectId, s.user)>>
         IN  IF h.fetch = "reject" THEN Ran(issued, ChatFailure(h.thrown))
             ELSE IF ~ResponseOk(h.status)
                  THEN Ran(issued, ChatFailure(Thrown(TRUE,
                           AgentFailureMessage(h.status, h.statusText))))
             ELSE IF h.text = "reject" THEN Ran(issued, ChatFailure(h.thrown))
             ELSE Ran(issued, ChatSuccess(cleanResponse(h.body)))

\* n8n.ts:185-213.  Both throws are caught at n8n.ts:209, which returns [].
getUserProjects(s, db) ==
    IF ~Truthy(s.user) THEN Ran(<<GetUserRequest>>, Rows(<<>>))
    ELSE LET issued == <<GetUserRequest, ProjectsQuery(s.user)>>
         IN  IF Truthy(db.error) THEN Ran(issued, Rows(<<>>))
             ELSE IF db.hasData THEN Ran(issued, Rows(db.rows))
             ELSE Ran(issued, Rows(<<>>))

\* n8n.ts:278-316
saveChatRecord(s, userMessage, aiResponse, projectId, db) ==
    IF ~Truthy(s.user) THEN Ran(<<GetUserRequest>>, JUndefined)
    ELSE Ran(<<GetUserRequest,
               ChatInsert(userMessage, aiResponse, projectId, s.user)>>,
             JUndefined)

\* n8n.ts:319-356
getChatRecords(s, limit, db) ==
    IF ~Truthy(s.user) THEN Ran(<<GetUserRequest>>, Rows(<<>>))
    ELSE LET issued == <<GetUserRequest, ChatQuery(s.user, limit)>>
         IN  IF Truthy(db.error) THEN Ran(issued, Rows(<<>>))
             ELSE IF db.hasData THEN Ran(issued, Rows(db.rows))
             ELSE Ran(issued, Rows(<<>>))

\* Inputs of the client functions
Sessions == {SignedOut, SignedIn("user-1")}

ProjectRow == [id |-> "p1", name |-> "Lease review"]
ChatRow == [id |-> "c1", content |-> "hello", ai_content |-> "answer"]

DbReplies ==
    { DbReply(TRUE, <<>>, Null),
      DbReply(TRUE, <<ProjectRow>>, Null),
      DbReply(TRUE, <<ChatRow>>, Null),
      DbReply(FALSE, <<>>, Null),
      DbReply(FALSE, <<>>, "permission denied") }

PlainTexts == {"", "answer", "{ai_content: answer}"}

AgentReplies ==
    { Response(200, "OK", b) :
          b \in PlainTexts \cup {JsonText(v) : v \in JsonValues} }
    \cup { Response(500, "Internal Server Error", JsonText(JString("answer"))),
           TextRejects(200, "OK", NetworkError),
           FetchRejects(NetworkError), FetchRejects(NotAnError) }

ChatInputs == {"What is the notice period?"}
ProjectIdArgs ==
    {OneProject("p1"), ManyProjects(<<"p1", "p2">>), ManyProjects(<<>>)}
DefaultLimit == 20
Limits == {DefaultLimit, 5}

----------------------------------------------------------------------------
(* Actions *)

\* no ingestion call under observation
NoRequest ==
    [ fetch |-> "none", status |-> 0, statusText |-> "",
      text |-> "none", body |-> "", thrown |-> NoThrow ]
\* no client function under observation
NoDbReply == DbReply(FALSE, <<>>, Null)
NoCall == [fn |-> "none"]

Init ==
    /\ uploadFiles = <<>>
    /\ attempts = <<>>
    /\ nextId = 1
    /\ picked = <<>>
    /\ exchange = NoRequest
    /\ returned = NoResult
    /\ session = SignedOut
    /\ stored = NoDbReply
    /\ invoked = NoCall
    /\ sent = <<>>

\* onFileSelect / onDrop: handleFiles(files)
OnFileSelect(files) ==
    /\ nextId + Len(files) - 1 <= MaxFiles
    /\ uploadFiles' = handleFiles(uploadFiles, files, nextId)
    /\ nextId' = nextId + Len(files)
    /\ UNCHANGED <<attempts, picked, exchange, returned, clientVars>>

\* startUpload.  It reads uploadFiles of the render it was created in; a
\* click is flushed before the next event is handled and only click
\* handlers make or remove 'pending' entries, so that render shows the
\* pending entries of the current state.
StartUpload ==
    LET started == startEach(uploadFiles, attempts, pendingFiles(uploadFiles))
    IN  /\ uploadFiles' = started[1]
        /\ attempts' = started[2]
        /\ UNCHANGED <<nextId, picked, exchange, returned, clientVars>>

\* the interval callback of attempt k fires
Tick(k) ==
    /\ attempts[k].timer
    /\ uploadFiles' = tickProgress(uploadFiles, attempts[k].id)
    /\ UNCHANGED <<attempts, nextId, picked, exchange, returned, clientVars>>

\* The request of attempt k settles with outcome h, uploadDocumentToN8n
\* returns and uploadFile resumes after its await.  The continuation of an
\* await runs as a microtask, so no event or timer callback comes between
\* the return of uploadDocumentToN8n and clearInterval.
Complete(k, h) ==
    /\ attempts[k].call = "pending"
    /\ uploadFiles' = finishUpload(uploadFiles, attempts[k].id,
                                   uploadDocumentToN8n(h))
    /\ attempts' = [attempts EXCEPT ![k] = settled(@, uploadDocumentToN8n(h))]
    /\ UNCHANGED <<nextId, picked, exchange, returned, clientVars>>

\* the remove button of entry i
RemoveFile(i) ==
    /\ uploadFiles' = removeFile(uploadFiles, uploadFiles[i].id)
    /\ UNCHANGED <<attempts, nextId, picked, exchange, returned, clientVars>>

\* updateFileTitle(id, newTitle) for entry i
UpdateFileTitle(i, newTitle) ==
    /\ uploadFiles' = updateFileTitle(uploadFiles, uploadFiles[i].id, newTitle)
    /\ UNCHANGED <<attempts, nextId, picked, exchange, returned, clientVars>>

Next ==
    \/ \E files \in SeqsUpTo(QueueFiles, MaxBatch) : OnFileSelect(files)
    \/ StartUpload
    \/ \E k \in DOMAIN attempts : Tick(k)
    \/ \E k \in DOMAIN attempts : \E h \in QueueOutcomes : Complete(k, h)
    \/ \E i \in DOMAIN uploadFiles : RemoveFile(i)
    \/ \E i \in DOMAIN uploadFiles : \E t \in Titles : UpdateFileTitle(i, t)

Spec == Init /\ [][Next]_vars

\* the ingestion call of attempt k returns and uploadFile resumes
Returns(k) ==
    /\ k \in DOMAIN attempts
    /\ \E h \in QueueOutcomes : Complete(k, h)

\* The queue when every ingestion call returns: a pending call is the
\* await of part_000:89, whose continuation the event loop runs once the
\* service has answered or the request has failed.  Nothing else is
\* promised: the user need not click, a timer need not fire.
SpecResponsive ==
    Init /\ [][Next]_vars /\ \A k \in 1..MaxFiles : WF_vars(Returns(k))

----------------------------------------------------------------------------
(* The specification of validation: one selection handed to handleFiles of  *)
(* a dialog that has just been opened.  picked is the FileList of the input *)
(* element, which keeps it after the change event.                          *)

InitValidate ==
    /\ uploadFiles = <<>>
    /\ attempts = <<>>
    /\ nextId = 1
    /\ picked \in SeqsUpTo(PickFiles, MaxPick)
    /\ exchange = NoRequest
    /\ returned = NoResult
    /\ session = SignedOut
    /\ stored = NoDbReply
    /\ invoked = NoCall
    /\ sent = <<>>

HandlePicked ==
    /\ uploadFiles = <<>>
    /\ nextId = 1
    /\ uploadFiles' = handleFiles(uploadFiles, picked, nextId)
    /\ nextId' = nextId + Len(picked)
    /\ UNCHANGED <<attempts, picked, exchange, returned, clientVars>>

NextValidate == HandlePicked

SpecValidate == InitValidate /\ [][NextValidate]_vars

----------------------------------------------------------------------------
(* The specification of the ingestion call: one call of uploadDocumentToN8n *)
(* whose request meets the outcome exchange; returned is what the call      *)
(* resolves to.                                                             *)

InitN8n ==
    /\ uploadFiles = <<>>
    /\ attempts = <<>>
    /\ nextId = 1
    /\ picked = <<>>
    /\ exchange \in Outcomes
    /\ returned = NoResult
    /\ session = SignedOut
    /\ stored = NoDbReply
    /\ invoked = NoCall
    /\ sent = <<>>

CallN8n ==
    /\ returned = NoResult
    /\ returned' = uploadDocumentToN8n(exchange)
    /\ UNCHANGED <<uploadFiles, attempts, nextId, picked, exchange, clientVars>>

NextN8n == CallN8n

SpecN8n == InitN8n /\ [][NextN8n]_vars

----------------------------------------------------------------------------
(* The specification of the client functions: one call of one of them, made  *)
(* while the identity provider resolves session, the agent service answers   *)
(* a request with exchange and the persistence backend answers a query with  *)
(* stored.  sent is the requests the call issued, in order, and returned is   *)
(* what it resolved to.                                                       *)

InitClient ==
    /\ uploadFiles = <<>>
    /\ attempts = <<>>
    /\ nextId = 1
    /\ picked = <<>>
    /\ exchange \in AgentReplies
    /\ returned = NoResult
    /\ session \in Sessions
    /\ stored \in DbReplies
    /\ invoked = NoCall
    /\ sent = <<>>

CallAgent(chatInput, projectId) ==
    LET ran == callN8nRAGAgent(session, chatInput, projectId, exchange) IN
    /\ invoked = NoCall
    /\ invoked' = [fn |-> "callN8nRAGAgent", chatInput |-> chatInput,
                   projectId |-> projectId]
    /\ sent' = ran.issued
    /\ returned' = ran.value
    /\ UNCHANGED <<uploadFiles, attempts, nextId, picked, exchange,
                   session, stored>>

ListProjects ==
    LET ran == getUserProjects(session, stored) IN
    /\ invoked = NoCall
    /\ invoked' = [fn |-> "getUserProjects"]
    /\ sent' = ran.issued
    /\ returned' = ran.value
    /\ UNCHANGED <<uploadFiles, attempts, nextId, picked, exchange,
                   session, stored>>

SaveRecord(userMessage, aiResponse, projectId) ==
    LET ran == saveChatRecord(session, userMessage, aiResponse, projectId,
                              stored) IN
    /\ invoked = NoCall
    /\ invoked' = [fn |-> "saveChatRecord", userMessage |-> userMessage,
                   aiResponse |-> aiResponse, projectId |-> projectId]
    /\ sent' = ran.issued
    /\ returned' = ran.value
    /\ UNCHANGED <<uploadFiles, attempts, nextId, picked, exchange,
                   session, stored>>

ReadRecords(limit) ==
    LET ran == getChatRecords(session, limit, stored) IN
    /\ invoked = NoCall
    /\ invoked' = [fn |-> "getChatRecords", limit |-> limit]
    /\ sent' = ran.issued
    /\ returned' = ran.value
    /\ UNCHANGED <<uploadFiles, attempts, nextId, picked, exchange,
                   session, stored>>

NextClient ==
    \/ \E c \in ChatInputs : \E p \in ProjectIdArgs : CallAgent(c, p)
    \/ ListProjects
    \/ \E c \in ChatInputs : \E p \in ProjectIdArgs : SaveRecord(c, "answer", p)
    \/ \E l \in Limits : ReadRecords(l)

SpecClient == InitClient /\ [][NextClient]_vars

----------------------------------------------------------------------------
(* Claims *)

\* the entries of the collection with a given id
EntriesOf(files, id) == {i \in DOMAIN files : files[i].id = id}

\* C1: handing a selection to handleFiles of an empty collection creates one
\* entry per file, in order; the entry is 'pending' exactly when the file's
\* type is in the allow-list and its size is at most 50 MiB (52428800 bytes,
\* inclusive), otherwise 'error' with a non-empty message: the type message
\* when the type is not allowed, else the size message; pendingCount is the
\* number of files that pass and pending + error is the number enqueued.
C1_Passes(f) == f.type \in acceptedTypes /\ f.size <= 52428800

C1_EnqueueValidates ==
    uploadFiles # <<>> =>
        /\ Len(uploadFiles) = Len(picked)
        /\ \A i \in DOMAIN picked :
              /\ uploadFiles[i].file = picked[i]
              /\ uploadFiles[i].status = "pending" <=> C1_Passes(picked[i])
              /\ ~C1_Passes(picked[i]) =>
                    /\ uploadFiles[i].status = "error"
                    /\ uploadFiles[i].error # Null
                    /\ uploadFiles[i].error # ""
                    /\ uploadFiles[i].error =
                          IF picked[i].type \notin acceptedTypes
                          THEN MsgType ELSE MsgSize
        /\ pendingCount = Cardinality({i \in DOMAIN picked : C1_Passes(picked[i])})
        /\ Cardinality({i \in DOMAIN uploadFiles :
                           uploadFiles[i].status \in {"pending", "error"}})
              = Len(picked)

\* a file of exactly 50 MiB was accepted beside one turned away for its size
\* and one turned away for its type
C1_Witness ==
    /\ Len(uploadFiles) = 2
    /\ picked[1].size = 52428800
    /\ uploadFiles[1].status = "pending"
    /\ picked[2].size = 52428801
    /\ uploadFiles[2].status = "error"
    /\ uploadFiles[2].error \in {MsgSize, MsgType}
    /\ pendingCount = 1

\* C2: startUpload moves exactly the entries that are 'pending' to
\* 'uploading' with progress 0 and changes nothing else of them; every other
\* entry is kept as it is, and so are the order and the membership of the
\* collection.
C2_StartAllFrame ==
    [][StartUpload =>
        /\ Len(uploadFiles') = Len(uploadFiles)
        /\ \A i \in DOMAIN uploadFiles :
              IF uploadFiles[i].status = "pending"
              THEN uploadFiles'[i] =
                      [uploadFiles[i] EXCEPT !.status = "uploading",
                                             !.progress = 0]
              ELSE uploadFiles'[i] = uploadFiles[i]]_vars

\* a second startUpload has started entry 2 while entry 1, started earlier,
\* is still uploading with the progress it had
C2_Witness ==
    /\ Len(uploadFiles) = 2
    /\ uploadFiles[1].status = "uploading" /\ uploadFiles[1].progress = 30
    /\ uploadFiles[2].status = "uploading" /\ uploadFiles[2].progress = 0
    /\ Len(attempts) = 2
    /\ attempts[1].call = "pending" /\ attempts[2].call = "pending"

\* C3: an entry whose ingestion call has returned success, and which is
\* still in the collection, has status 'success' and progress 100 in every
\* state from then on.
C3_SuccessIsFinal ==
    \A k \in DOMAIN attempts :
        (attempts[k].call = "done" /\ attempts[k].result.success) =>
            \A i \in EntriesOf(uploadFiles, attempts[k].id) :
                /\ uploadFiles[i].status = "success"
                /\ uploadFiles[i].progress = 100

\* entry 1 succeeded after its timer had ticked; entry 2 is uploading
C3_Witness ==
    /\ Len(uploadFiles) = 2
    /\ attempts # <<>>
    /\ attempts[1].call = "done" /\ attempts[1].result.success
    /\ uploadFiles[1].id = attempts[1].id
    /\ uploadFiles[1].status = "success"
    /\ uploadFiles[2].status = "uploading" /\ uploadFiles[2].progress = 90

\* C4: an entry whose ingestion call has failed with message M, and which is
\* still in the collection, has status 'error', progress 0 and error M in
\* every state from then on.
C4_FailureIsFinal ==
    \A k \in DOMAIN attempts :
        (attempts[k].call = "done" /\ ~attempts[k].result.success) =>
            \A i \in EntriesOf(uploadFiles, attempts[k].id) :
                /\ uploadFiles[i].status = "error"
                /\ uploadFiles[i].progress = 0
                /\ uploadFiles[i].error = attempts[k].result.error

\* entry 1 failed with the message of a 404 response, entry 2 failed with
\* the message of a rejected request
C4_Witness ==
    /\ Len(uploadFiles) = 2 /\ Len(attempts) = 2
    /\ attempts[1].call = "done" /\ attempts[2].call = "done"
    /\ uploadFiles[1].id = attempts[1].id
    /\ uploadFiles[2].id = attempts[2].id
    /\ uploadFiles[1].status = "error"
    /\ uploadFiles[1].error = "file upload failed: 404 Not Found"
    /\ uploadFiles[2].status = "error"
    /\ uploadFiles[2].error = "Failed to fetch"

C6_AllCompleted ==
    allCompleted <=>
        ~ \/ uploadFiles = <<>>
          \/ \E i \in DOMAIN uploadFiles :
                uploadFiles[i].status \in {"pending", "uploading"}

\* entry 1 has completed and a valid file enqueued afterwards is pending, so
\* allCompleted is false again
C6_Witness ==
    /\ Len(uploadFiles) = 2
    /\ uploadFiles[1].status = "success"
    /\ uploadFiles[2].status = "pending"
    /\ Len(attempts) = 1
    /\ ~allCompleted

\* C7: no step changes the title of an entry that is 'uploading' or
\* 'success' and stays in the collection.
C7_TitleFrozen ==
    [][\A i \in DOMAIN uploadFiles :
          uploadFiles[i].status \in {"uploading", "success"} =>
              \A j \in EntriesOf(uploadFiles', uploadFiles[i].id) :
                  uploadFiles'[j].title = uploadFiles[i].title]_vars

\* C8: while an entry stays in the collection its status changes only from
\* 'pending' to 'uploading' and from 'uploading' to 'success' or 'error'; in
\* particular no step changes the status of an entry that is 'success' or
\* 'error'.
C8_StatusOrder ==
    [][\A i \in DOMAIN uploadFiles :
          \A j \in EntriesOf(uploadFiles', uploadFiles[i].id) :
              \/ uploadFiles'[j].status = uploadFiles[i].status
              \/ /\ uploadFiles[i].status = "pending"
                 /\ uploadFiles'[j].status = "uploading"
              \/ /\ uploadFiles[i].status = "uploading"
                 /\ uploadFiles'[j].status \in {"success", "error"}]_vars

\* entry 1 is in error from validation, entry 2 is in error from a failed
\* upload
C8_Witness ==
    /\ Len(uploadFiles) = 2
    /\ uploadFiles[1].status = "error"
    /\ uploadFiles[1].error = MsgType
    /\ uploadFiles[2].status = "error"
    /\ Len(attempts) = 1
    /\ attempts[1].id = uploadFiles[2].id
    /\ attempts[1].call = "done"

\* C9: every upload request ever issued was issued for a file that passed
\* validation, and no entry that failed validation has an upload attempt.
C9_FailedValidation(entry) ==
    ~(entry.file.type \in acceptedTypes /\ entry.file.size <= 52428800)

C9_NoUploadOfInvalid ==
    /\ \A k \in DOMAIN attempts : C1_Passes(attempts[k].file)
    /\ \A i \in DOMAIN uploadFiles :
          C9_FailedValidation(uploadFiles[i]) =>
              /\ uploadFiles[i].status = "error"
              /\ \A k \in DOMAIN attempts : attempts[k].id # uploadFiles[i].id

\* startUpload ran on a collection holding an oversize file and a valid one:
\* only the valid one has an attempt
C9_Witness ==
    /\ Len(uploadFiles) = 2
    /\ uploadFiles[1].status = "error"
    /\ uploadFiles[1].error = MsgSize
    /\ uploadFiles[2].status = "uploading"
    /\ Len(attempts) = 1
    /\ attempts[1].id = uploadFiles[2].id

\* C10 as stated: the call reports success whenever the response has a
\* failure status and a non-empty body, and whenever its status is OK; it
\* reports failure when a failure status comes with an empty body or the
\* request rejects.
C10_Called == returned # NoResult

C10_BodyRead == exchange.fetch = "resolve" /\ exchange.text = "resolve"

C10_AnyFailureStatusWithBody ==
    C10_Called =>
        /\ (C10_BodyRead /\ ~ResponseOk(exchange.status) /\ exchange.body # "")
              => returned.success
        /\ (C10_BodyRead /\ ResponseOk(exchange.status)) => returned.success
        /\ (C10_BodyRead /\ ~ResponseOk(exchange.status) /\ exchange.body = "")
              => ~returned.success
        /\ ~C10_BodyRead => ~returned.success

\* C10 as amended: the call reports success exactly when the body was read
\* and the status is OK, or is 500 with a non-empty body; every other
\* failure status, with or without a body, status 500 with an empty body,
\* and a rejected request are reported as failures.
C10_Only500WithBody ==
    C10_Called =>
        (returned.success <=>
            /\ C10_BodyRead
            /\ \/ exchange.status \in 200..299
               \/ exchange.status = 500 /\ exchange.body # "")

\* a 500 response with a body was reported as a success
C10_Witness ==
    /\ C10_Called
    /\ exchange.status = 500
    /\ exchange.body = "Error in workflow"
    /\ returned.success
    /\ returned.response = "Error in workflow"

\* C11: every ingestion call that has returned has resolved to a result
\* object with a boolean success (an error text exactly when it failed),
\* uploadFile has raised nothing, and the outcome is in the status and error
\* of the entry, if the entry is still in the collection.
C11_NoFaultEscapes ==
    \A k \in DOMAIN attempts :
        attempts[k].call = "done" =>
            /\ DOMAIN attempts[k].result = {"success", "response", "error"}
            /\ attempts[k].result.success \in BOOLEAN
            /\ attempts[k].result.success <=> attempts[k].result.error = Null
            /\ ~attempts[k].result.success => attempts[k].result.error # ""
            /\ attempts[k].raised = NoThrow
            /\ \A i \in EntriesOf(uploadFiles, attempts[k].id) :
                  /\ uploadFiles[i].status =
                        IF attempts[k].result.success THEN "success" ELSE "error"
                  /\ ~attempts[k].result.success =>
                        uploadFiles[i].error = attempts[k].result.error

\* one call met a 500 response with a body, the other a request rejected
\* with a value that is not an Error; both returned a result object
C11_Witness ==
    /\ Len(attempts) = 2 /\ Len(uploadFiles) = 2
    /\ attempts[1].call = "done" /\ attempts[2].call = "done"
    /\ attempts[1].result.success
    /\ attempts[1].result.response = "Error in workflow"
    /\ ~attempts[2].result.success
    /\ attempts[2].result.error = MsgN8nUploadFailed
    /\ uploadFiles[1].status = "success"
    /\ uploadFiles[2].status = "error"

\* C14: the progress of every entry is a multiple of 10 in 0..100; it is
\* 100 exactly when the entry is 'success', 0 when the entry is 'pending' or
\* 'error' and at most 90 when it is 'uploading'; a tick of the simulation
\* leaves the progress of an entry as it is or raises it by 10, to at most 90.
C14_ProgressOf(entry) ==
    /\ entry.progress \in {10 * n : n \in 0..10}
    /\ entry.progress = 100 <=> entry.status = "success"
    /\ entry.status \in {"pending", "error"} => entry.progress = 0
    /\ entry.status = "uploading" => entry.progress <= 90

C14_Progress ==
    [][/\ \A i \in DOMAIN uploadFiles' : C14_ProgressOf(uploadFiles'[i])
       /\ \A k \in DOMAIN attempts :
             Tick(k) =>
                 /\ Len(uploadFiles') = Len(uploadFiles)
                 /\ \A i \in DOMAIN uploadFiles :
                       \/ uploadFiles'[i] = uploadFiles[i]
                       \/ /\ uploadFiles'[i] =
                                [uploadFiles[i] EXCEPT !.progress = @ + 10]
                          /\ uploadFiles'[i].progress <= 90]_vars

\* the simulation has taken entry 1 to its ceiling; entry 2 has succeeded
C14_Witness ==
    /\ Len(uploadFiles) = 2
    /\ uploadFiles[1].status = "uploading" /\ uploadFiles[1].progress = 90
    /\ uploadFiles[2].status = "success" /\ uploadFiles[2].progress = 100

\* C15: once the ingestion call of an attempt has returned, with a success
\* or with a failure, the attempt's timer is cleared and none of its ticks
\* can be applied any more.
C15_TimerCleared ==
    \A k \in DOMAIN attempts :
        attempts[k].call = "done" =>
            /\ ~attempts[k].timer
            /\ ~ENABLED Tick(k)

\* the call of attempt 1 failed and the call of attempt 2 succeeded, both
\* after ticks of another timer had been applied; entry 1 is still at 0
C15_Witness ==
    /\ Len(attempts) = 2 /\ Len(uploadFiles) = 2
    /\ attempts[1].call = "done" /\ ~attempts[1].result.success
    /\ attempts[2].call = "done" /\ attempts[2].result.success
    /\ ~attempts[1].timer /\ ~attempts[2].timer
    /\ uploadFiles[1].id = attempts[1].id /\ uploadFiles[1].progress = 0
    /\ uploadFiles[2].id = attempts[2].id /\ uploadFiles[2].progress = 100

\* C16: a completion (the step in which an attempt's call returns) changes
\* only the entry of its own attempt, whatever
\* ticks and completions of other attempts come before or after it, and the
\* status of every entry whose call has returned is the one its own call's
\* result gives.
C16_OwnOutcome(files, atts) ==
    \A k \in DOMAIN atts :
        atts[k].call = "done" =>
            \A i \in EntriesOf(files, atts[k].id) :
                files[i].status =
                    IF atts[k].result.success THEN "success" ELSE "error"

C16_NoLostUpdate ==
    [][/\ C16_OwnOutcome(uploadFiles', attempts')
       /\ \A k \in DOMAIN attempts :
             (attempts[k].call = "pending" /\ attempts'[k].call = "done") =>
                 /\ Len(uploadFiles') = Len(uploadFiles)
                 /\ \A i \in DOMAIN uploadFiles :
                       uploadFiles[i].id # attempts[k].id =>
                           uploadFiles'[i] = uploadFiles[i]]_vars

\* two attempts were in flight together (entry 2 was started while entry 1
\* was uploading); one has failed, the other is uploading with its progress
C16_Witness ==
    /\ Len(attempts) = 2 /\ Len(uploadFiles) = 2
    /\ attempts[1].call = "pending" /\ attempts[2].call = "done"
    /\ uploadFiles[1].id = attempts[1].id
    /\ uploadFiles[1].status = "uploading" /\ uploadFiles[1].progress = 50
    /\ uploadFiles[2].id = attempts[2].id
    /\ uploadFiles[2].status = "error"
    /\ uploadFiles[2].error = "Failed to fetch"

\* C17: an entry that is 'uploading' and stays in the collection is still
\* 'uploading', with progress at most 90, after every step that is not the
\* completion of an attempt for that entry.
C17_OwnCompletion(id) ==
    \E k \in DOMAIN attempts : \E h \in QueueOutcomes :
        attempts[k].id = id /\ Complete(k, h)

C17_UploadingUntilResponse ==
    [][\A i \in DOMAIN uploadFiles :
          uploadFiles[i].status = "uploading" =>
              \A j \in EntriesOf(uploadFiles', uploadFiles[i].id) :
                  \/ /\ uploadFiles'[j].status = "uploading"
                     /\ uploadFiles'[j].progress <= 90
                  \/ C17_OwnCompletion(uploadFiles[i].id)]_vars

\* the service has not answered: the entry sits at the ceiling of the
\* simulation, still uploading, its request pending, beside a later entry
C17_Witness ==
    /\ Len(uploadFiles) = 2 /\ Len(attempts) = 1
    /\ attempts[1].call = "pending" /\ attempts[1].timer
    /\ uploadFiles[1].id = attempts[1].id
    /\ uploadFiles[1].status = "uploading" /\ uploadFiles[1].progress = 90
    /\ uploadFiles[1].title = "Report"
    /\ uploadFiles[2].status = "pending"

\* C18: handleFiles appends the new entries after all existing entries, in
\* the order of the files, leaves every existing entry as it is, gives each
\* new entry progress 0 and the file's name as title, and starts no upload
\* attempt.
C18_EnqueueFrame ==
    [][\A files \in SeqsUpTo(QueueFiles, MaxBatch) :
          OnFileSelect(files) =>
              /\ Len(uploadFiles') = Len(uploadFiles) + Len(files)
              /\ \A i \in DOMAIN uploadFiles : uploadFiles'[i] = uploadFiles[i]
              /\ \A n \in DOMAIN files :
                    /\ uploadFiles'[Len(uploadFiles) + n].file = files[n]
                    /\ uploadFiles'[Len(uploadFiles) + n].progress = 0
                    /\ uploadFiles'[Len(uploadFiles) + n].title = files[n].name
              /\ attempts' = attempts]_vars

\* a file was enqueued behind an entry whose upload is under way and whose
\* title was edited: it is last, pending, at 0, titled with its name, and
\* there is still one attempt only
C18_Witness ==
    /\ Len(uploadFiles) = 2 /\ Len(attempts) = 1
    /\ uploadFiles[1].status = "uploading" /\ uploadFiles[1].progress = 40
    /\ uploadFiles[1].title = "Report"
    /\ uploadFiles[2].status = "pending" /\ uploadFiles[2].progress = 0
    /\ uploadFiles[2].title = uploadFiles[2].file.name
    /\ attempts[1].id = uploadFiles[1].id

\* C19: an entry that has been removed is not in the collection after any
\* later step, and a tick or a completion of an attempt whose entry has been
\* removed leaves the collection as it is.
C19_Gone(files, id) == EntriesOf(files, id) = {}

C19_RemovedStaysRemoved ==
    [][/\ \A id \in 1..(nextId - 1) :
             C19_Gone(uploadFiles, id) => C19_Gone(uploadFiles', id)
       /\ \A k \in DOMAIN attempts :
             C19_Gone(uploadFiles, attempts[k].id) =>
                 /\ Tick(k) => uploadFiles' = uploadFiles
                 /\ \A h \in QueueOutcomes :
                       Complete(k, h) => uploadFiles' = uploadFiles]_vars

\* entry 1 was removed; its call has returned a success since, the
\* collection holds entry 2 alone, uploading
C19_Witness ==
    /\ Len(attempts) = 2 /\ Len(uploadFiles) = 1
    /\ attempts[1].call = "done" /\ attempts[1].result.success
    /\ C19_Gone(uploadFiles, attempts[1].id)
    /\ uploadFiles[1].id = attempts[2].id
    /\ uploadFiles[1].status = "uploading" /\ uploadFiles[1].progress = 10

\* C20: no two upload attempts were ever started for the same entry, so no
\* entry has two timers running.
C20_OneAttemptPerEntry ==
    /\ \A k1, k2 \in DOMAIN attempts :
          attempts[k1].id = attempts[k2].id => k1 = k2
    /\ \A id \in 1..(nextId - 1) :
          Cardinality({k \in DOMAIN attempts :
                          attempts[k].id = id /\ attempts[k].timer}) <= 1

\* startUpload was called again with entry 1 uploading: entry 2 got its
\* attempt and entry 1 still has one, whose timer runs
C20_Witness ==
    /\ Len(uploadFiles) = 2 /\ Len(attempts) = 2
    /\ uploadFiles[1].status = "uploading" /\ uploadFiles[1].progress = 60
    /\ uploadFiles[2].status = "uploading" /\ uploadFiles[2].progress = 10
    /\ attempts[1].id = uploadFiles[1].id /\ attempts[1].timer
    /\ attempts[2].id = uploadFiles[2].id /\ attempts[2].timer

----------------------------------------------------------------------------
\* a call of fn has returned while nobody was signed in
UnauthenticatedCall(fn) == invoked.fn = fn /\ ~Truthy(session.user)

IdentityFunctions ==
    {"callN8nRAGAgent", "getUserProjects", "saveChatRecord", "getChatRecords"}

\* the value a caller can tell from every other: a failure result that
\* names the condition
UnauthenticatedFailure(v) ==
    /\ "success" \in DOMAIN v
    /\ ~v.success
    /\ v.error = MsgNotLoggedIn

\* C12 (the part about requests): when the identity provider resolves no
\* user, a call of any of the four functions issues no request to the agent
\* service and no query or insert to the persistence backend.
C12_IssuesNoRequest ==
    \A fn \in IdentityFunctions :
        UnauthenticatedCall(fn) =>
            \A i \in DOMAIN sent : sent[i].to \notin {"agent", "db"}

\* C12: when the identity provider resolves no user, each of
\* callN8nRAGAgent, getUserProjects, saveChatRecord and getChatRecords
\* fails with an 'unauthenticated' failure its caller can see, and issues no
\* request to the agent service and no query or insert to the persistence
\* backend.
C12_FailsUnauthenticated ==
    \A fn \in IdentityFunctions :
        UnauthenticatedCall(fn) =>
            /\ UnauthenticatedFailure(returned)
            /\ \A i \in DOMAIN sent : sent[i].to \notin {"agent", "db"}

----------------------------------------------------------------------------
\* callN8nRAGAgent has returned from a request the agent service answered
\* with an OK payload
OkPayload ==
    /\ invoked.fn = "callN8nRAGAgent"
    /\ Truthy(session.user)
    /\ exchange.fetch = "resolve"
    /\ ResponseOk(exchange.status)
    /\ exchange.text = "resolve"

HasResponseField(v) ==
    /\ v.type = "object"
    /\ \E i \in DOMAIN v.members : v.members[i].key = "ai_content"

\* C13 as stated: for every OK payload, callN8nRAGAgent returns the value
\* of the response field if the payload decodes to a structure that has
\* the field, and the entire payload text in every other case.
C13_FieldOrPayload ==
    OkPayload =>
        LET parsed == JsonParse(exchange.body) IN
        /\ returned.success
        /\ returned.response =
              IF parsed.ok /\ HasResponseField(parsed.value)
              THEN GetMember(parsed.value, "ai_content")
              ELSE JString(exchange.body)

\* C13 as amended: for every OK payload, callN8nRAGAgent returns the value
\* of the response field if the payload decodes to a structure whose
\* response field is truthy, the decoded string if the payload decodes to a
\* string, and the entire payload text in every other case.
C13_TruthyFieldOrStringOrPayload ==
    OkPayload =>
        LET parsed == JsonParse(exchange.body) IN
        /\ returned.success
        /\ returned.response =
              IF /\ parsed.ok
                 /\ HasResponseField(parsed.value)
                 /\ JTruthy(GetMember(parsed.value, "ai_content"))
              THEN GetMember(parsed.value, "ai_content")
              ELSE IF parsed.ok /\ parsed.value.type = "string"
                   THEN JString(parsed.value.text)
                   ELSE JString(exchange.body)

\* a payload that is the JSON text of a string came back decoded, and so
\* not as the entire payload text
C13_Witness ==
    /\ OkPayload
    /\ exchange.body = Quote("answer")
    /\ returned.response = JString("answer")
    /\ returned.response # JString(exchange.body)

----------------------------------------------------------------------------
\* the entry of id is in the collection with status 'uploading'
C21_Uploading(id) ==
    \E i \in EntriesOf(uploadFiles, id) : uploadFiles[i].status = "uploading"

\* the entry of id is 'success' or 'error', or is no longer in the collection
C21_Finished(id) ==
    \A i \in EntriesOf(uploadFiles, id) :
        uploadFiles[i].status \in {"success", "error"}

\* C21: when every ingestion call eventually returns, every entry that
\* startUpload moved to 'uploading' eventually is 'success' or 'error' or
\* has been removed; and whenever the collection is non-empty and no entry
\* is 'pending' or 'uploading', allCompleted holds.
C21_EveryUploadFinishes ==
    /\ \A id \in 1..MaxFiles : C21_Uploading(id) ~> C21_Finished(id)
    /\ [](( /\ uploadFiles # <<>>
            /\ \A i \in DOMAIN uploadFiles :
                  uploadFiles[i].status \notin {"pending", "uploading"} )
          => allCompleted)

\* both entries were moved to 'uploading' by one startUpload, both calls
\* have returned, one stored and one refused, and allCompleted holds
C21_Witness ==
    /\ Len(uploadFiles) = 2 /\ Len(attempts) = 2
    /\ \A k \in 1..2 : attempts[k].call = "done"
    /\ uploadFiles[1].id = attempts[1].id /\ uploadFiles[1].status = "success"
    /\ uploadFiles[2].id = attempts[2].id /\ uploadFiles[2].status = "error"
    /\ uploadFiles[2].error = "file upload failed: 404 Not Found"
    /\ C21_Finished(1) /\ C21_Finished(2)
    /\ allCompleted

====
